---- MODULE Spec2Model ----
(***************************************************************************)
(* Project Mates: the team / invitation consistency logic of               *)
(* services/apiService.ts over the document store (users, teams,           *)
(* conversations, invitations), driven by the pages that call it.          *)
(*                                                                         *)
(* Every await of the service is one step: a read resolves, or a write /   *)
(* batch is applied by the store.  A batch is applied all-or-nothing; an   *)
(* update of a missing document fails (and fails its whole batch); a       *)
(* delete of a missing document succeeds.  Any write may also fail for a   *)
(* reason of the store (network), leaving the store unchanged.             *)
(*                                                                         *)
(* Each user has one client.  The client's currentUser is the last         *)
(* profile snapshot delivered by the listener of App, so it can lag the    *)
(* stored profile.                                                         *)
(***************************************************************************)
EXTENDS Integers, Sequences, FiniteSets, TLC

\* ---------------------------------------------------------------- bounds
MaxTeams == 2
MaxInvs == 3
MaxBusy == 2
TeamInvs == 2
OneAtATime == 1
MaxTagLen == 2
MaxSubs == 3

\* ------------------------------------------------------------- universes
Users == {"u1", "u2", "u3"}
TeamIds == 1..MaxTeams
InvIds == 1..MaxInvs
SubIds == 1..MaxSubs
TeamNames == {"Alpha"}

\* teamId: null, and the field being absent (teamId?: string | null)
NullTeam == 0
NoField == -1

Looking == "Looking for a team"
InTeam == "In a team"

\* The onboarding form's input of each user (skills, interests).
FormSkills(u) ==
    CASE u = "u1" -> {"A"}
      [] u = "u2" -> {"B"}
      [] OTHER -> {"A", "B"}

FormInterests(u) ==
    CASE u = "u1" -> {"C"}
      [] u = "u2" -> {"D"}
      [] OTHER -> {"C"}

\* --------------------------------------------------------------- records
NoProfile ==
    [exists |-> FALSE, id |-> "", skills |-> {}, interests |-> {},
     teamStatus |-> "", teamId |-> NoField, isTeamOwner |-> "undef",
     profileComplete |-> FALSE]

NoTeam ==
    [exists |-> FALSE, name |-> "", ownerId |-> "", members |-> <<>>,
     skills |-> {}, interests |-> {}]

NoConv == [exists |-> FALSE, participantIds |-> {}]

NoInv == [exists |-> FALSE, teamId |-> NullTeam, teamName |-> "",
          fromUserId |-> "", toUserId |-> ""]

\* No operation returned in this step.
NoResult == "none"
Returned(c, outcome) == outcome

IdleOp ==
    [pc |-> "idle", user |-> NoProfile, teamId |-> NullTeam, team |-> NoTeam,
     invId |-> 0, inv |-> NoInv, accepted |-> FALSE, to |-> ""]

\* let userProfileUnsubscribe: (() => void) | null = null
NoSub == 0

\* The root component once mounted: the auth listener is registered, no
\* profile subscription yet, nobody signed in, loading.  subs[s] is the
\* s-th subscription onSnapshot returned: whose profile it listens to,
\* whether it is active, and how often its unsubscribe function was called.
InitApp ==
    [listening |-> TRUE, handle |-> NoSub, created |-> 0,
     subs |-> [s \in SubIds |-> [user |-> "", active |-> FALSE, released |-> 0]],
     firebaseUser |-> "none", currentUser |-> NoProfile, isLoading |-> TRUE]

VARIABLES
    auth,       \* identity of each user: "none", "active", "deleted"
    users,      \* collection users: the profile documents
    teams,      \* collection teams
    convs,      \* collection conversations, documents team_<teamId>
    invs,       \* collection invitations
    teamCount,  \* team documents created so far (ids are never reused)
    invCount,   \* invitation documents created so far
    cache,      \* each client's currentUser (App state)
    scope,      \* who takes part and how: fixed by the specification
    op,         \* each client's operation in flight and its locals
    app,        \* the root component of one browser: its listeners and state
    result      \* what the step just taken returned to its caller

vars == <<auth, users, teams, convs, invs, teamCount, invCount, cache, scope, op, app, result>>

\* ------------------------------------------------------------ pure parts
\* JS truthiness of user.teamId
HasTeamId(u) == u.teamId \notin {NullTeam, NoField}

\* const userForTeam = { ...user }; delete userForTeam.profileComplete
MemberOf(user) ==
    [id |-> user.id, skills |-> user.skills, interests |-> user.interests,
     teamStatus |-> user.teamStatus, teamId |-> user.teamId,
     isTeamOwner |-> user.isTeamOwner]

MemberIds(team) == {team.members[i].id : i \in 1..Len(team.members)}

\* Array.from(new Set(members.flatMap(m => m.skills)))
UnionSkills(members) == UNION {members[i].skills : i \in 1..Len(members)}
UnionInterests(members) == UNION {members[i].interests : i \in 1..Len(members)}

\* arrayUnion(x) on an array field: appended unless an equal element is there
ArrayUnion(arr, x) ==
    IF \E i \in 1..Len(arr) : arr[i] = x THEN arr ELSE Append(arr, x)

\* team.members.filter(m => m.id !== user.id)
WithoutMember(members, uid) == SelectSeq(members, LAMBDA m : m.id # uid)

Idle(c) == op[c].pc = "idle"
Busy == {c \in Users : op[c].pc # "idle"}

\* The main application is rendered: signed in, profile loaded, onboarded.
InApp(c) ==
    /\ auth[c] = "active"
    /\ cache[c].exists
    /\ cache[c].profileComplete

\* The listener of App after a write of client c to its own profile: the
\* local write is delivered to the local listener at once, unless the client
\* lags (the write came from another tab or device of the user).
Delivered(c) ==
    IF c \in scope.lagging THEN cache ELSE [cache EXCEPT ![c] = users'[c]]

InitStore ==
    /\ auth = [u \in Users |-> "none"]
    /\ users = [u \in Users |-> NoProfile]
    /\ teams = [t \in TeamIds |-> NoTeam]
    /\ convs = [t \in TeamIds |-> NoConv]
    /\ invs = [i \in InvIds |-> NoInv]
    /\ teamCount = 0
    /\ invCount = 0
    /\ cache = [u \in Users |-> NoProfile]
    /\ op = [u \in Users |-> IdleOp]
    /\ app = InitApp
    /\ result = NoResult

\* scope.actors: the users who register; scope.busy: how many operations
\* may be in flight at a time; scope.invs: how many invitations may be
\* created; scope.lagging: the clients whose profile listener lags.
Scope(actors, busy, ninvs, lagging) ==
    [actors |-> actors, busy |-> busy, invs |-> ninvs, lagging |-> lagging]

\* Client c may start an operation that spans several steps.
MayStart(c) == Idle(c) /\ Cardinality(Busy) < scope.busy

Init == InitStore /\ scope = Scope(Users, MaxBusy, TeamInvs, {})

\* ------------------------------------------------- registration, profile
\* Auth.handleSubmit (signup): the identity and the profile document.
Register(c) ==
    /\ c \in scope.actors
    /\ auth[c] = "none"
    /\ auth' = [auth EXCEPT ![c] = "active"]
    /\ users' = [users EXCEPT ![c] =
           [exists |-> TRUE, id |-> c, skills |-> {}, interests |-> {},
            teamStatus |-> Looking, teamId |-> NoField,
            isTeamOwner |-> "undef", profileComplete |-> FALSE]]
    /\ result' = NoResult
    /\ UNCHANGED <<teams, convs, invs, teamCount, invCount, cache, op, scope, app>>

\* App: the onSnapshot listener of the signed-in user's profile document.
ProfileSnapshot(c) ==
    /\ auth[c] = "active"
    /\ cache[c] # users[c]
    /\ cache' = [cache EXCEPT ![c] = users[c]]
    /\ result' = NoResult
    /\ UNCHANGED <<auth, users, teams, convs, invs, teamCount, invCount, op, scope, app>>

\* Onboarding.handleSubmit: updateUserProfile(user.id, profileData), then
\* onOnboardingComplete(updatedUser).
Onboard(c) ==
    /\ auth[c] = "active"
    /\ Idle(c)
    /\ cache[c].exists
    /\ ~cache[c].profileComplete
    /\ IF users[c].exists
       THEN /\ users' = [users EXCEPT ![c].skills = FormSkills(c),
                                      ![c].interests = FormInterests(c),
                                      ![c].profileComplete = TRUE]
            /\ cache' = [cache EXCEPT ![c] = users'[c]]
            /\ result' = Returned(c, "ok")
       ELSE /\ result' = Returned(c, "error")
            /\ UNCHANGED <<users, cache>>
    /\ UNCHANGED <<auth, teams, convs, invs, teamCount, invCount, op, scope, app>>

\* ------------------------------------------------------------ createTeam
\* Dashboard renders CreateTeamForm unless
\* user.teamStatus === 'In a team' && user.teamId.
ShowsCreateTeamForm(user) == ~(user.teamStatus = InTeam /\ HasTeamId(user))

\* const newTeam = { id, name, ownerId, members: [ownerAsMember], skills, interests }
NewTeam(teamName, owner) ==
    [exists |-> TRUE, name |-> teamName, ownerId |-> owner.id,
     members |-> <<MemberOf(owner)>>, skills |-> owner.skills,
     interests |-> owner.interests]

\* A profile update that omits the owner flag.
OwnerProfileWithoutFlag(profile, tid) ==
    [profile EXCEPT !.teamId = tid, !.teamStatus = InTeam]

\* batch.update(userRef, { teamId, isTeamOwner: true, teamStatus: 'In a team' })
OwnerProfile(profile, tid) ==
    [profile EXCEPT !.teamId = tid, !.isTeamOwner = "true", !.teamStatus = InTeam]

\* The batch of createTeam: team set, profile update, conversation set.
CreateTeamBatch(owner, teamName, tid) ==
    /\ teams' = [teams EXCEPT ![tid] = NewTeam(teamName, owner)]
    /\ users' = [users EXCEPT ![owner.id] = OwnerProfile(@, tid)]
    /\ convs' = [convs EXCEPT ![tid] =
           [exists |-> TRUE, participantIds |-> {owner.id}]]

CreateTeam(c, teamName, storeOk) ==
    /\ InApp(c)
    /\ Idle(c)
    /\ ShowsCreateTeamForm(cache[c])
    /\ teamCount < MaxTeams
    /\ IF storeOk /\ users[c].exists
       THEN /\ CreateTeamBatch(cache[c], teamName, teamCount + 1)
            /\ teamCount' = teamCount + 1
            /\ cache' = Delivered(c)
            /\ result' = Returned(c, "ok")
       ELSE /\ result' = Returned(c, "error")
            /\ UNCHANGED <<users, teams, convs, teamCount, cache>>
    /\ UNCHANGED <<auth, invs, invCount, op, scope, app>>

\* ------------------------------------------------------------- leaveTeam
OwnerError == "You are the owner. Please transfer ownership or remove other members before leaving."

\* A profile reset that leaves the owner flag as it was.
ClearedProfileKeepingFlag(profile) ==
    [profile EXCEPT !.teamId = NullTeam, !.teamStatus = Looking]

\* { teamId: null, isTeamOwner: false, teamStatus: 'Looking for a team' }
ClearedProfile(profile) ==
    [profile EXCEPT !.teamId = NullTeam, !.isTeamOwner = "false",
                    !.teamStatus = Looking]

\* user.id === team.ownerId
LeavesAsOwner(user, team) == user.id = team.ownerId

\* An owner check that tolerates one other member.
HasTwoOtherMembers(team) == Len(team.members) > 2

\* team.members.length > 1
HasOtherMembers(team) == Len(team.members) > 1

\* The update of the team document by a leaving regular member.
TeamAfterLeave(team, read, uid) ==
    [team EXCEPT !.members = WithoutMember(read.members, uid),
                 !.skills = UnionSkills(WithoutMember(read.members, uid)),
                 !.interests = UnionInterests(WithoutMember(read.members, uid))]

\* TeamStatusCard's Leave Team button, up to the resolution of getDoc(teamRef)
\* and the owner check that follows it without an await.
LeaveTeamRead(c) ==
    /\ InApp(c)
    /\ MayStart(c)
    /\ ~ShowsCreateTeamForm(cache[c])
    /\ LET tid == cache[c].teamId
           team == teams[tid]
       IN IF ~team.exists
          THEN /\ op' = [op EXCEPT ![c] = [IdleOp EXCEPT !.pc = "leave_missing",
                                              !.user = cache[c], !.teamId = tid]]
               /\ result' = NoResult
          ELSE IF LeavesAsOwner(cache[c], team) /\ HasOtherMembers(team)
          THEN /\ result' = Returned(c, OwnerError)
               /\ UNCHANGED op
          ELSE /\ op' = [op EXCEPT ![c] = [IdleOp EXCEPT !.pc = "leave_commit",
                                              !.user = cache[c], !.teamId = tid,
                                              !.team = team]]
               /\ result' = NoResult
    /\ UNCHANGED <<auth, users, teams, convs, invs, teamCount, invCount, cache, scope, app>>

\* Team might have been deleted. Just update the user.
LeaveTeamMissing(c, storeOk) ==
    /\ op[c].pc = "leave_missing"
    /\ IF storeOk /\ users[c].exists
       THEN /\ users' = [users EXCEPT ![c] = ClearedProfile(@)]
            /\ cache' = Delivered(c)
            /\ result' = Returned(c, "ok")
       ELSE /\ result' = Returned(c, "error")
            /\ UNCHANGED <<users, cache>>
    /\ op' = [op EXCEPT ![c] = IdleOp]
    /\ UNCHANGED <<auth, teams, convs, invs, teamCount, invCount, scope, app>>

\* A leaveTeam whose owner branch forgets the conversation.
LeaveTeamBatchKeepingConversation(c, user, tid, read) ==
    IF LeavesAsOwner(user, read)
    THEN /\ teams' = [teams EXCEPT ![tid] = NoTeam]
         /\ convs' = convs
         /\ users' = [users EXCEPT ![c] = ClearedProfile(@)]
    ELSE /\ teams' = [teams EXCEPT ![tid] = TeamAfterLeave(@, read, user.id)]
         /\ convs' = [convs EXCEPT ![tid].participantIds = @ \ {user.id}]
         /\ users' = [users EXCEPT ![c] = ClearedProfile(@)]

\* The batch of leaveTeam, as the store applies it.
LeaveTeamBatch(c, user, tid, read) ==
    IF LeavesAsOwner(user, read)
    THEN /\ teams' = [teams EXCEPT ![tid] = NoTeam]
         /\ convs' = [convs EXCEPT ![tid] = NoConv]
         /\ users' = [users EXCEPT ![c] = ClearedProfile(@)]
    ELSE /\ teams' = [teams EXCEPT ![tid] = TeamAfterLeave(@, read, user.id)]
         /\ convs' = [convs EXCEPT ![tid].participantIds = @ \ {user.id}]
         /\ users' = [users EXCEPT ![c] = ClearedProfile(@)]

\* Every document the batch updates exists.
LeaveTeamBatchApplies(c, user, tid, read) ==
    /\ users[c].exists
    /\ LeavesAsOwner(user, read) \/ (teams[tid].exists /\ convs[tid].exists)

LeaveTeamCommit(c, storeOk) ==
    /\ op[c].pc = "leave_commit"
    /\ IF storeOk /\ LeaveTeamBatchApplies(c, op[c].user, op[c].teamId, op[c].team)
       THEN /\ LeaveTeamBatch(c, op[c].user, op[c].teamId, op[c].team)
            /\ cache' = Delivered(c)
            /\ result' = Returned(c, "ok")
       ELSE /\ result' = Returned(c, "error")
            /\ UNCHANGED <<users, teams, convs, cache>>
    /\ op' = [op EXCEPT ![c] = IdleOp]
    /\ UNCHANGED <<auth, invs, teamCount, invCount, scope, app>>

\* -------------------------------------------------------- sendInvitation
InviteExistsError == "An invitation to this user for this team already exists."

\* canInvite = currentUser?.isTeamOwner && user.teamStatus === 'Looking for a team'
CanInvite(currentUser, viewed) ==
    currentUser.isTeamOwner = "true" /\ viewed.teamStatus = Looking

\* The profile object the page shows of user `to` comes from a search or
\* suggestion list fetched earlier and is not refreshed: it is the profile as
\* registered, or the profile as stored now.
ViewsOf(to) ==
    IF auth[to] = "none" THEN {}
    ELSE {[NoProfile EXCEPT !.exists = TRUE, !.id = to, !.teamStatus = Looking]}
         \cup (IF users[to].exists THEN {users[to]} ELSE {})

\* A query that forgets the recipient.
PendingForAnyone(tid, to) ==
    {i \in InvIds : invs[i].exists /\ invs[i].teamId = tid}

\* where teamId == team.id, toUserId == toUser.id, status == 'pending'
PendingFor(tid, to) ==
    {i \in InvIds : invs[i].exists /\ invs[i].teamId = tid /\ invs[i].toUserId = to}

\* Invitation documents the clients in flight may still add.
InvitesInFlight == Cardinality({c \in Users : op[c].pc \in {"invite_query", "invite_add"}})

\* MyProfile.handleInvite, up to the resolution of getTeam(currentUser.teamId).
InviteGetTeam(c, to) ==
    /\ InApp(c)
    /\ MayStart(c)
    /\ to # c
    /\ \E viewed \in ViewsOf(to) : CanInvite(cache[c], viewed)
    /\ HasTeamId(cache[c])
    /\ invCount + InvitesInFlight < scope.invs
    /\ IF teams[cache[c].teamId].exists
       THEN /\ op' = [op EXCEPT ![c] = [IdleOp EXCEPT !.pc = "invite_query",
                                           !.user = cache[c], !.to = to,
                                           !.teamId = cache[c].teamId,
                                           !.team = teams[cache[c].teamId]]]
            /\ result' = NoResult
       ELSE /\ result' = Returned(c, "no team")
            /\ UNCHANGED op
    /\ UNCHANGED <<auth, users, teams, convs, invs, teamCount, invCount, cache, scope, app>>

\* sendInvitation: the existence query resolves.
InviteQuery(c) ==
    /\ op[c].pc = "invite_query"
    /\ IF PendingFor(op[c].teamId, op[c].to) # {}
       THEN /\ op' = [op EXCEPT ![c] = IdleOp]
            /\ result' = Returned(c, InviteExistsError)
       ELSE /\ op' = [op EXCEPT ![c].pc = "invite_add"]
            /\ result' = NoResult
    /\ UNCHANGED <<auth, users, teams, convs, invs, teamCount, invCount, cache, scope, app>>

\* const newInvitation = { teamId, teamName, fromUser, toUserId, status: 'pending' }
NewInvitation(team, tid, fromUser, to) ==
    [exists |-> TRUE, teamId |-> tid, teamName |-> team.name,
     fromUserId |-> fromUser.id, toUserId |-> to]

\* sendInvitation: addDoc(invitationRef, newInvitation) is applied.
InviteAdd(c, storeOk) ==
    /\ op[c].pc = "invite_add"
    /\ IF storeOk
       THEN /\ invs' = [invs EXCEPT ![invCount + 1] =
                  NewInvitation(op[c].team, op[c].teamId, op[c].user, op[c].to)]
            /\ invCount' = invCount + 1
            /\ result' = Returned(c, "ok")
       ELSE /\ result' = Returned(c, "error")
            /\ UNCHANGED <<invs, invCount>>
    /\ op' = [op EXCEPT ![c] = IdleOp]
    /\ UNCHANGED <<auth, users, teams, convs, teamCount, cache, scope, app>>

\* ------------------------------------------------------ handleInvitation
InvitationNotFound == "Invitation not found."
TeamNotFound == "Team not found."

\* Array.from(new Set([...teamData.skills, ...user.skills]))
MergedTags(teamTags, userTags) == teamTags \cup userTags

\* A profile update on joining that forgets the status.
JoinedProfileWithoutStatus(profile, tid) ==
    [profile EXCEPT !.teamId = tid]

\* batch.update(userRef, { teamId: invitation.teamId, teamStatus: 'In a team' })
JoinedProfile(profile, tid) ==
    [profile EXCEPT !.teamId = tid, !.teamStatus = InTeam]

\* batch.update(teamRef, { members: arrayUnion(userForTeam), skills, interests })
TeamAfterJoin(team, read, user) ==
    [team EXCEPT !.members = ArrayUnion(@, MemberOf(user)),
                 !.skills = MergedTags(read.skills, user.skills),
                 !.interests = MergedTags(read.interests, user.interests)]

\* A deleted invitation keeps its fields: a client's invitation list may
\* still show it until the listener delivers the next snapshot.
Resolved(inv) == [inv EXCEPT !.exists = FALSE]

\* A handleInvitation that goes on without looking at invSnap.exists().
HandleInvitationReadUnchecked(c, i, accepted) ==
    /\ InApp(c)
    /\ MayStart(c)
    /\ i <= invCount
    /\ invs[i].toUserId = c
    /\ op' = [op EXCEPT ![c] =
           [IdleOp EXCEPT !.pc = IF accepted THEN "handle_team" ELSE "handle_commit",
                          !.user = cache[c], !.invId = i, !.inv = invs[i],
                          !.teamId = invs[i].teamId, !.accepted = accepted]]
    /\ result' = NoResult
    /\ UNCHANGED <<auth, users, teams, convs, invs, teamCount, invCount, cache, scope, app>>

\* Dashboard.handleInvitationAction, up to the resolution of getDoc(invRef).
HandleInvitationRead(c, i, accepted) ==
    /\ InApp(c)
    /\ MayStart(c)
    /\ i <= invCount
    /\ invs[i].toUserId = c
    /\ IF ~invs[i].exists
       THEN /\ result' = Returned(c, InvitationNotFound)
            /\ UNCHANGED op
       ELSE /\ op' = [op EXCEPT ![c] =
                  [IdleOp EXCEPT !.pc = IF accepted THEN "handle_team" ELSE "handle_commit",
                                 !.user = cache[c], !.invId = i, !.inv = invs[i],
                                 !.teamId = invs[i].teamId, !.accepted = accepted]]
            /\ result' = NoResult
    /\ UNCHANGED <<auth, users, teams, convs, invs, teamCount, invCount, cache, scope, app>>

\* handleInvitation, accepted: getDoc(teamRef) resolves.
HandleInvitationTeam(c) ==
    /\ op[c].pc = "handle_team"
    /\ IF ~teams[op[c].teamId].exists
       THEN /\ op' = [op EXCEPT ![c] = IdleOp]
            /\ result' = Returned(c, TeamNotFound)
       ELSE /\ op' = [op EXCEPT ![c].pc = "handle_commit",
                                ![c].team = teams[op[c].teamId]]
            /\ result' = NoResult
    /\ UNCHANGED <<auth, users, teams, convs, invs, teamCount, invCount, cache, scope, app>>

\* The batch of handleInvitation, as the store applies it.
HandleInvitationBatch(c, user, tid, read, i, accepted) ==
    /\ invs' = [invs EXCEPT ![i] = Resolved(@)]
    /\ IF accepted
       THEN /\ users' = [users EXCEPT ![c] = JoinedProfile(@, tid)]
            /\ teams' = [teams EXCEPT ![tid] = TeamAfterJoin(@, read, user)]
            /\ convs' = [convs EXCEPT ![tid].participantIds = @ \cup {user.id}]
       ELSE UNCHANGED <<users, teams, convs>>

\* A store that lets the batch update a missing team or conversation.
HandleInvitationBatchAppliesUnchecked(c, tid, accepted) ==
    accepted => users[c].exists

\* Every document the batch updates exists.
HandleInvitationBatchApplies(c, tid, accepted) ==
    accepted => users[c].exists /\ teams[tid].exists /\ convs[tid].exists

HandleInvitationCommit(c, storeOk) ==
    /\ op[c].pc = "handle_commit"
    /\ IF storeOk /\ HandleInvitationBatchApplies(c, op[c].teamId, op[c].accepted)
       THEN /\ HandleInvitationBatch(c, op[c].user, op[c].teamId, op[c].team,
                                     op[c].invId, op[c].accepted)
            /\ cache' = Delivered(c)
            /\ result' = Returned(c, "ok")
       ELSE /\ result' = Returned(c, "error")
            /\ UNCHANGED <<users, teams, convs, invs, cache>>
    /\ op' = [op EXCEPT ![c] = IdleOp]
    /\ UNCHANGED <<auth, teamCount, invCount, scope, app>>

\* The Accept and Decline buttons of an invitation stay enabled while a call
\* of handleInvitationAction is in flight: the user may press one of them
\* again.  The second call's locals are kept in the slot Again of op.
Again == "again"

\* Dashboard.handleInvitationAction pressed again for invitation i while the
\* first call for it is in flight, up to the resolution of getDoc(invRef).
HandleInvitationAgainRead(c, i, accepted) ==
    /\ InApp(c)
    /\ Again \in DOMAIN op
    /\ op[Again].pc = "idle"
    /\ op[c].pc \in {"handle_team", "handle_commit"}
    /\ op[c].invId = i
    /\ IF ~invs[i].exists
       THEN /\ result' = Returned(c, InvitationNotFound)
            /\ UNCHANGED op
       ELSE /\ op' = [op EXCEPT ![Again] =
                  [IdleOp EXCEPT !.pc = IF accepted THEN "handle_team" ELSE "handle_commit",
                                 !.user = cache[c], !.invId = i, !.inv = invs[i],
                                 !.teamId = invs[i].teamId, !.accepted = accepted]]
            /\ result' = NoResult
    /\ UNCHANGED <<auth, users, teams, convs, invs, teamCount, invCount, cache, scope, app>>

\* The second call, accepted: getDoc(teamRef) resolves.
HandleInvitationAgainTeam ==
    /\ Again \in DOMAIN op
    /\ op[Again].pc = "handle_team"
    /\ IF ~teams[op[Again].teamId].exists
       THEN /\ op' = [op EXCEPT ![Again] = IdleOp]
            /\ result' = Returned(op[Again].user.id, TeamNotFound)
       ELSE /\ op' = [op EXCEPT ![Again].pc = "handle_commit",
                                ![Again].team = teams[op[Again].teamId]]
            /\ result' = NoResult
    /\ UNCHANGED <<auth, users, teams, convs, invs, teamCount, invCount, cache, scope, app>>

\* The second call: batch.commit() is applied or fails.
HandleInvitationAgainCommit(storeOk) ==
    /\ Again \in DOMAIN op
    /\ op[Again].pc = "handle_commit"
    /\ LET c == op[Again].user.id
       IN IF storeOk /\ HandleInvitationBatchApplies(c, op[Again].teamId, op[Again].accepted)
          THEN /\ HandleInvitationBatch(c, op[Again].user, op[Again].teamId,
                                        op[Again].team, op[Again].invId,
                                        op[Again].accepted)
               /\ cache' = Delivered(c)
               /\ result' = Returned(c, "ok")
          ELSE /\ result' = Returned(c, "error")
               /\ UNCHANGED <<users, teams, convs, invs, cache>>
    /\ op' = [op EXCEPT ![Again] = IdleOp]
    /\ UNCHANGED <<auth, teamCount, invCount, scope, app>>

\* ----------------------------------------------------- updateUserProfile
\* updateDoc(userDocRef, formData): formData is the whole currentUser object
\* the form was loaded with (setFormData(user)) plus the edited fields, so
\* every field present in it is written.
SavedProfile(profile, form) ==
    [profile EXCEPT
        !.skills = form.skills,
        !.interests = form.interests,
        !.profileComplete = form.profileComplete,
        !.teamStatus = form.teamStatus,
        !.teamId = IF form.teamId = NoField THEN @ ELSE form.teamId,
        !.isTeamOwner = IF form.isTeamOwner = "undef" THEN @ ELSE form.isTeamOwner]

\* The skills a user may type into the profile form.
SkillEdits(c) == {FormSkills(c)}

\* A save that also rewrites the skills of the saver's snapshot in the team.
HandleSaveRefreshingTeam(c, skills, storeOk) ==
    /\ InApp(c)
    /\ Idle(c)
    /\ IF storeOk /\ users[c].exists
       THEN /\ users' = [users EXCEPT ![c] =
                  SavedProfile(@, [cache[c] EXCEPT !.skills = skills])]
            /\ teams' = [t \in TeamIds |->
                  [teams[t] EXCEPT !.members =
                      [i \in 1..Len(teams[t].members) |->
                          IF teams[t].members[i].id = c
                          THEN [teams[t].members[i] EXCEPT !.skills = skills]
                          ELSE teams[t].members[i]]]]
            /\ cache' = [cache EXCEPT ![c] = users'[c]]
            /\ result' = Returned(c, "ok")
       ELSE /\ result' = Returned(c, "error")
            /\ UNCHANGED <<users, teams, cache>>
    /\ UNCHANGED <<auth, convs, invs, teamCount, invCount, op, scope, app>>

\* MyProfile.handleSave: updateUserProfile(user.id, formData), then
\* onProfileUpdate(updatedUser).
HandleSave(c, skills, storeOk) ==
    /\ InApp(c)
    /\ Idle(c)
    /\ IF storeOk /\ users[c].exists
       THEN /\ users' = [users EXCEPT ![c] =
                  SavedProfile(@, [cache[c] EXCEPT !.skills = skills])]
            /\ cache' = [cache EXCEPT ![c] = users'[c]]
            /\ result' = Returned(c, "ok")
       ELSE /\ result' = Returned(c, "error")
            /\ UNCHANGED <<users, cache>>
    /\ UNCHANGED <<auth, teams, convs, invs, teamCount, invCount, op, scope, app>>

\* ----------------------------------------------------- deleteUserAccount
DeleteOwnerError == "You are the owner of a team with other members. Please transfer ownership or remove all members before deleting your account."

\* if (user.isTeamOwner)
DeletesAsOwner(user) == user.isTeamOwner = "true"

\* MyProfile.handleDeleteAccount, up to the first await of deleteUserAccount
\* that touches the store: getDoc(teamRef) when user.teamId is set.
DeleteAccountRead(c) ==
    /\ InApp(c)
    /\ MayStart(c)
    /\ LET user == cache[c]
           tid == user.teamId
           start(pc, team) == [IdleOp EXCEPT !.pc = pc, !.user = user,
                                            !.teamId = tid, !.team = team]
       IN IF ~HasTeamId(user) \/ ~teams[tid].exists
          THEN /\ op' = [op EXCEPT ![c] = [IdleOp EXCEPT !.pc = "delete_user", !.user = user]]
               /\ result' = NoResult
          ELSE IF DeletesAsOwner(user) /\ HasOtherMembers(teams[tid])
          THEN /\ result' = Returned(c, DeleteOwnerError)
               /\ UNCHANGED op
          ELSE /\ op' = [op EXCEPT ![c] =
                     start(IF DeletesAsOwner(user) THEN "delete_owner_team"
                                                   ELSE "delete_member_team", teams[tid])]
               /\ result' = NoResult
    /\ UNCHANGED <<auth, users, teams, convs, invs, teamCount, invCount, cache, scope, app>>

\* A write of deleteUserAccount failed: the error reaches handleDeleteAccount.
DeleteAccountFails(c) ==
    /\ op' = [op EXCEPT ![c] = IdleOp]
    /\ result' = Returned(c, "error")

\* await deleteDoc(teamRef)
DeleteOwnerTeam(c, storeOk) ==
    /\ op[c].pc = "delete_owner_team"
    /\ IF storeOk
       THEN /\ teams' = [teams EXCEPT ![op[c].teamId] = NoTeam]
            /\ op' = [op EXCEPT ![c].pc = "delete_owner_conv"]
            /\ result' = NoResult
       ELSE /\ DeleteAccountFails(c)
            /\ UNCHANGED teams
    /\ UNCHANGED <<auth, users, convs, invs, teamCount, invCount, cache, scope, app>>

\* await deleteDoc(conversationRef)
DeleteOwnerConv(c, storeOk) ==
    /\ op[c].pc = "delete_owner_conv"
    /\ IF storeOk
       THEN /\ convs' = [convs EXCEPT ![op[c].teamId] = NoConv]
            /\ op' = [op EXCEPT ![c].pc = "delete_user"]
            /\ result' = NoResult
       ELSE /\ DeleteAccountFails(c)
            /\ UNCHANGED convs
    /\ UNCHANGED <<auth, users, teams, invs, teamCount, invCount, cache, scope, app>>

\* await updateDoc(teamRef, { members: updatedMembers })
DeleteMemberTeam(c, storeOk) ==
    /\ op[c].pc = "delete_member_team"
    /\ IF storeOk /\ teams[op[c].teamId].exists
       THEN /\ teams' = [teams EXCEPT ![op[c].teamId].members =
                  WithoutMember(op[c].team.members, op[c].user.id)]
            /\ op' = [op EXCEPT ![c].pc = "delete_member_conv"]
            /\ result' = NoResult
       ELSE /\ DeleteAccountFails(c)
            /\ UNCHANGED teams
    /\ UNCHANGED <<auth, users, convs, invs, teamCount, invCount, cache, scope, app>>

\* await updateDoc(conversationRef, { participantIds: arrayRemove(user.id) })
DeleteMemberConv(c, storeOk) ==
    /\ op[c].pc = "delete_member_conv"
    /\ IF storeOk /\ convs[op[c].teamId].exists
       THEN /\ convs' = [convs EXCEPT ![op[c].teamId].participantIds =
                  @ \ {op[c].user.id}]
            /\ op' = [op EXCEPT ![c].pc = "delete_user"]
            /\ result' = NoResult
       ELSE /\ DeleteAccountFails(c)
            /\ UNCHANGED convs
    /\ UNCHANGED <<auth, users, teams, invs, teamCount, invCount, cache, scope, app>>

\* await deleteDoc(userRef)
DeleteUserDoc(c, storeOk) ==
    /\ op[c].pc = "delete_user"
    /\ IF storeOk
       THEN /\ users' = [users EXCEPT ![c] = NoProfile]
            /\ cache' = Delivered(c)
            /\ op' = [op EXCEPT ![c].pc = "delete_identity"]
            /\ result' = NoResult
       ELSE /\ DeleteAccountFails(c)
            /\ UNCHANGED <<users, cache>>
    /\ UNCHANGED <<auth, teams, convs, invs, teamCount, invCount, scope, app>>

\* handleDeleteAccount: await deleteUser(firebaseUser)
DeleteIdentity(c, authOk) ==
    /\ op[c].pc = "delete_identity"
    /\ IF authOk
       THEN /\ auth' = [auth EXCEPT ![c] = "deleted"]
            /\ cache' = [cache EXCEPT ![c] = NoProfile]
            /\ result' = Returned(c, "ok")
       ELSE /\ result' = Returned(c, "error")
            /\ UNCHANGED <<auth, cache>>
    /\ op' = [op EXCEPT ![c] = IdleOp]
    /\ UNCHANGED <<users, teams, convs, invs, teamCount, invCount, scope, app>>

\* ------------------------------------------------- App: the root effect
\* Calling the function onSnapshot returned for subscription s.
Unsubscribe(subs, s) ==
    [subs EXCEPT ![s].active = FALSE, ![s].released = @ + 1]

\* An auth-state change that leaves the previous subscription running.
ReleasePreviousSkipped(a) == a.subs

\* if (userProfileUnsubscribe) { userProfileUnsubscribe(); ... = null }
ReleasePrevious(a) ==
    IF a.handle # NoSub THEN Unsubscribe(a.subs, a.handle) ELSE a.subs

\* The callback of onAuthStateChanged: user u ("none": signed out) whose
\* e-mail address is or is not verified.
AuthStateChanged(u, emailVerified) ==
    /\ app.listening
    /\ u # "none" => auth[u] = "active"
    /\ IF u # "none" /\ emailVerified
       THEN /\ app.created < MaxSubs
            /\ app' = [app EXCEPT
                   !.subs = [ReleasePrevious(app) EXCEPT ![app.created + 1] =
                                [user |-> u, active |-> TRUE, released |-> 0]],
                   !.handle = app.created + 1,
                   !.created = app.created + 1,
                   !.firebaseUser = u]
       ELSE app' = [app EXCEPT
                   !.subs = ReleasePrevious(app),
                   !.handle = NoSub,
                   !.firebaseUser = "none",
                   !.currentUser = NoProfile,
                   !.isLoading = FALSE]
    /\ result' = NoResult
    /\ UNCHANGED <<auth, users, teams, convs, invs, teamCount, invCount, cache, scope, op>>

\* The callback of onSnapshot(userDocRef) of subscription s.
ProfileListener(s) ==
    /\ app.subs[s].active
    /\ LET docSnap == users[app.subs[s].user]
           seen == IF docSnap.exists THEN docSnap ELSE NoProfile
       IN /\ app.currentUser # seen \/ app.isLoading
          /\ app' = [app EXCEPT !.currentUser = seen, !.isLoading = FALSE]
    /\ result' = NoResult
    /\ UNCHANGED <<auth, users, teams, convs, invs, teamCount, invCount, cache, scope, op>>

\* The cleanup the effect returns: authUnsubscribe(), then the profile
\* subscription if one is held.
Teardown ==
    /\ app.listening
    /\ app' = [app EXCEPT !.listening = FALSE, !.subs = ReleasePrevious(app)]
    /\ result' = NoResult
    /\ UNCHANGED <<auth, users, teams, convs, invs, teamCount, invCount, cache, scope, op>>

\* ---------------------------------------------------------- seedDatabase
\* The mock users seedDatabase forms the mock team from: teamOwner and
\* teamMember.
SeedOwner == "mock-user-6"
SeedMember == "mock-user-2"
MockUsers == {SeedOwner, SeedMember}

\* { ...user, id: `mock-${user.id}`, profileComplete: true }
MockProfile(u) ==
    [exists |-> TRUE, id |-> u,
     skills |-> IF u = SeedOwner THEN {"A"} ELSE {"B"},
     interests |-> IF u = SeedOwner THEN {"C"} ELSE {"D"},
     teamStatus |-> Looking, teamId |-> NoField, isTeamOwner |-> "undef",
     profileComplete |-> TRUE]

\* const team: Team = { id, name, ownerId, members: [teamOwner, teamMember],
\* skills, interests }: the members are the whole mock user objects.
SeedTeam ==
    [exists |-> TRUE, name |-> "Team Innovate", ownerId |-> SeedOwner,
     members |-> <<MemberOf(MockProfile(SeedOwner)), MemberOf(MockProfile(SeedMember))>>,
     skills |-> MockProfile(SeedOwner).skills \cup MockProfile(SeedMember).skills,
     interests |-> MockProfile(SeedOwner).interests \cup MockProfile(SeedMember).interests]

\* The batch of seedDatabase: the mock users are set, the team is set, and
\* the profiles of the two team members are updated.
SeedBatch(stored, tid) ==
    /\ teams' = [teams EXCEPT ![tid] = SeedTeam]
    /\ teamCount' = tid
    /\ users' = [u \in DOMAIN users |->
           IF u = SeedOwner
           THEN [MockProfile(u) EXCEPT !.teamId = tid, !.teamStatus = InTeam,
                                       !.isTeamOwner = "true"]
           ELSE IF u = SeedMember
           THEN [MockProfile(u) EXCEPT !.teamId = tid, !.teamStatus = InTeam,
                                       !.isTeamOwner = "false"]
           ELSE stored[u]]

\* Auth.handleSubmit (signup) with its call of seedDatabase: when the users
\* collection is empty the mock users and the mock team are written first,
\* then the identity and the profile document of the new user.
Signup(c, seedOk) ==
    /\ c \in scope.actors
    /\ auth[c] = "none"
    /\ LET profile == [exists |-> TRUE, id |-> c, skills |-> {}, interests |-> {},
                       teamStatus |-> Looking, teamId |-> NoField,
                       isTeamOwner |-> "undef", profileComplete |-> FALSE]
           empty == \A u \in DOMAIN users : ~users[u].exists
       IN IF ~empty
          THEN /\ auth' = [auth EXCEPT ![c] = "active"]
               /\ users' = [users EXCEPT ![c] = profile]
               /\ result' = NoResult
               /\ UNCHANGED <<teams, teamCount>>
          ELSE IF seedOk /\ teamCount < MaxTeams
          THEN /\ auth' = [auth EXCEPT ![c] = "active"]
               /\ SeedBatch([users EXCEPT ![c] = profile], teamCount + 1)
               /\ result' = NoResult
          ELSE /\ result' = Returned(c, "error")
               /\ UNCHANGED <<auth, users, teams, teamCount>>
    /\ UNCHANGED <<convs, invs, invCount, cache, scope, op, app>>

\* ------------------------------------------------------- specifications
\* Registration, the profile pages and the team / invitation operations.
TeamStep(c) ==
    \/ Register(c)
    \/ ProfileSnapshot(c)
    \/ Onboard(c)
    \/ \E n \in TeamNames, ok \in BOOLEAN : CreateTeam(c, n, ok)
    \/ LeaveTeamRead(c)
    \/ \E ok \in BOOLEAN : LeaveTeamMissing(c, ok)
    \/ \E ok \in BOOLEAN : LeaveTeamCommit(c, ok)
    \/ \E to \in Users : InviteGetTeam(c, to)
    \/ InviteQuery(c)
    \/ \E ok \in BOOLEAN : InviteAdd(c, ok)
    \/ \E i \in InvIds, a \in BOOLEAN : HandleInvitationRead(c, i, a)
    \/ HandleInvitationTeam(c)
    \/ \E ok \in BOOLEAN : HandleInvitationCommit(c, ok)
    \/ \E sk \in SkillEdits(c), ok \in BOOLEAN : HandleSave(c, sk, ok)

\* Account deletion.
AccountStep(c) ==
    \/ DeleteAccountRead(c)
    \/ \E ok \in BOOLEAN : DeleteOwnerTeam(c, ok)
    \/ \E ok \in BOOLEAN : DeleteOwnerConv(c, ok)
    \/ \E ok \in BOOLEAN : DeleteMemberTeam(c, ok)
    \/ \E ok \in BOOLEAN : DeleteMemberConv(c, ok)
    \/ \E ok \in BOOLEAN : DeleteUserDoc(c, ok)
    \/ \E ok \in BOOLEAN : DeleteIdentity(c, ok)

\* The team and invitation workflow of all users, interleaved.
Next == \E c \in Users : TeamStep(c)

Spec == Init /\ [][Next]_vars

\* The same with account deletion: two users, one operation at a time.
InitAccount == InitStore /\ scope = Scope({"u1", "u2"}, OneAtATime, MaxInvs, {})

NextAccount == \E c \in Users : TeamStep(c) \/ AccountStep(c)

SpecAccount == InitAccount /\ [][NextAccount]_vars

\* One user whose profile listener lags: the user works in two tabs.
InitLagging == InitStore /\ scope = Scope({"u1", "u2"}, OneAtATime, TeamInvs, {"u1"})

SpecLagging == InitLagging /\ [][Next]_vars

\* Three clients that register, create teams, invite and answer invitations,
\* with every invitation id available.
InviteStep(c) ==
    \/ Register(c)
    \/ ProfileSnapshot(c)
    \/ Onboard(c)
    \/ \E teamName \in TeamNames, storeOk \in BOOLEAN : CreateTeam(c, teamName, storeOk)
    \/ \E to \in Users : InviteGetTeam(c, to)
    \/ InviteQuery(c)
    \/ \E storeOk \in BOOLEAN : InviteAdd(c, storeOk)
    \/ \E i \in InvIds, accepted \in BOOLEAN : HandleInvitationRead(c, i, accepted)
    \/ HandleInvitationTeam(c)
    \/ \E storeOk \in BOOLEAN : HandleInvitationCommit(c, storeOk)

InitInvite == InitStore /\ scope = Scope(Users, MaxBusy, MaxInvs, {})
NextInvite == \E c \in Users : InviteStep(c)
SpecInvite == InitInvite /\ [][NextInvite]_vars

\* --------------------------------------------------- getRecommendedTeams
\* The stored arrays of skills and interests may hold a tag more than once
\* (the forms split what the user typed); here they are kept as lists.
TagLists(tags) == UNION {[1..n -> tags] : n \in 0..MaxTagLen}

\* new Set(list)
SetOf(list) == {list[i] : i \in 1..Len(list)}

\* [...new Set(list)]: the first occurrence of each element, in order.
RECURSIVE Dedup(_)
Dedup(list) ==
    IF list = <<>> THEN <<>>
    ELSE LET front == Dedup(SubSeq(list, 1, Len(list) - 1))
             last == list[Len(list)]
         IN IF last \in SetOf(front) THEN front ELSE Append(front, last)

\* [...userSkills].filter(skill => teamSkills.has(skill))
CommonTags(userTags, teamTags) ==
    SelectSeq(Dedup(userTags), LAMBDA tag : tag \in SetOf(teamTags))

\* A score that weighs skills like interests.
ScoreUnweighted(commonSkills, commonInterests) ==
    Len(commonSkills) + Len(commonInterests)

\* const score = (commonSkills.length * 2) + commonInterests.length
Score(commonSkills, commonInterests) ==
    (Len(commonSkills) * 2) + Len(commonInterests)

\* { ...team, score, commonSkills, commonInterests }
ScoredTeam(user, tid) ==
    [id |-> tid, ownerId |-> teams[tid].ownerId, members |-> teams[tid].members,
     skills |-> teams[tid].skills, interests |-> teams[tid].interests,
     commonSkills |-> CommonTags(user.skills, teams[tid].skills),
     commonInterests |-> CommonTags(user.interests, teams[tid].interests),
     score |-> Score(CommonTags(user.skills, teams[tid].skills),
                     CommonTags(user.interests, teams[tid].interests))]

\* A membership filter that lets every team through.
NotAMemberUnchecked(user, team) == TRUE

\* !team.members.some(member => member.id === currentUser.id)
NotAMember(user, team) ==
    ~\E i \in 1..Len(team.members) : team.members[i].id = user.id

\* where('ownerId', '!=', currentUser.id), then the member filter
AllTeams(user) ==
    {t \in TeamIds : /\ teams[t].exists
                     /\ teams[t].ownerId # user.id
                     /\ NotAMember(user, teams[t])}

\* .filter(team => team.score > 0)
WithCommonalities(user) ==
    {t \in AllTeams(user) : ScoredTeam(user, t).score > 0}

\* The order of the documents in the query result: by ownerId, then by id.
OwnerRank(u) == CASE u = "u1" -> 1 [] u = "u2" -> 2 [] OTHER -> 3

QueryBefore(a, b) ==
    \/ OwnerRank(teams[a].ownerId) < OwnerRank(teams[b].ownerId)
    \/ teams[a].ownerId = teams[b].ownerId /\ a < b

\* .sort((a, b) => b.score - a.score): stable, highest score first.
RecommendedTeams(user) ==
    LET kept == WithCommonalities(user)
        before(a, b) ==
            \/ ScoredTeam(user, a).score > ScoredTeam(user, b).score
            \/ /\ ScoredTeam(user, a).score = ScoredTeam(user, b).score
               /\ QueryBefore(a, b)
        order == CHOOSE s \in [1..Cardinality(kept) -> kept] :
                     \A i, j \in 1..Cardinality(kept) : i < j => before(s[i], s[j])
    IN [i \in 1..Cardinality(kept) |-> ScoredTeam(user, order[i])]

\* FindTeammates: getRecommendedTeams(currentUser) resolves.
GetRecommendedTeams(c) ==
    /\ op[c].pc = "recommend"
    /\ result' = Returned(c, RecommendedTeams(op[c].user))
    /\ op' = [op EXCEPT ![c].pc = "idle"]
    /\ UNCHANGED <<auth, users, teams, convs, invs, teamCount, invCount, cache, scope, app>>

\* The teams a recommendation may meet: owned by the caller, or owned by
\* someone else with or without the caller among the members.
RosterOptions ==
    {[ownerId |-> "u1", members |-> <<[id |-> "u1"]>>],
     [ownerId |-> "u2", members |-> <<[id |-> "u2"]>>],
     [ownerId |-> "u2", members |-> <<[id |-> "u2"], [id |-> "u1"]>>]}

StoredTeams ==
    {[exists |-> TRUE, name |-> "Alpha", ownerId |-> r.ownerId,
      members |-> r.members, skills |-> sk, interests |-> it] :
         r \in RosterOptions, sk \in TagLists({"A"}), it \in {<<>>, <<"C">>}}

Callers ==
    {[NoProfile EXCEPT !.exists = TRUE, !.id = "u1", !.skills = sk,
                       !.interests = it, !.profileComplete = TRUE] :
         sk \in TagLists({"A", "B"}), it \in {<<>>, <<"C">>, <<"C", "C">>}}

\* A store of teams and one client whose call of getRecommendedTeams is
\* in flight.
InitRecommend ==
    /\ auth = [u \in Users |-> IF u = "u1" THEN "active" ELSE "none"]
    /\ \E caller \in Callers :
          /\ users = [u \in Users |-> IF u = "u1" THEN caller ELSE NoProfile]
          /\ cache = users
          /\ op = [u \in Users |-> IF u = "u1"
                                    THEN [IdleOp EXCEPT !.pc = "recommend", !.user = caller]
                                    ELSE IdleOp]
    /\ teams \in [TeamIds -> StoredTeams]
    /\ convs = [t \in TeamIds |-> NoConv]
    /\ invs = [i \in InvIds |-> NoInv]
    /\ teamCount = MaxTeams
    /\ invCount = 0
    /\ app = InitApp
    /\ result = NoResult
    /\ scope = Scope({"u1"}, OneAtATime, TeamInvs, {})

NextRecommend == \E c \in Users : GetRecommendedTeams(c)

SpecRecommend == InitRecommend /\ [][NextRecommend]_vars

\* Two users who register, create a team, invite and answer, one operation
\* at a time.
InitScenario == InitStore /\ scope = Scope({"u1", "u2"}, OneAtATime, TeamInvs, {})
SpecScenario == InitScenario /\ [][NextInvite]_vars

\* Two users whose operations interleave and whose profile form may be saved with
\* skills other than the ones entered at onboarding.
ProfileEdits(c) == {FormSkills(c), {"E"}}

ProfileStep(c) ==
    \/ Register(c)
    \/ ProfileSnapshot(c)
    \/ Onboard(c)
    \/ \E teamName \in TeamNames, storeOk \in BOOLEAN : CreateTeam(c, teamName, storeOk)
    \/ LeaveTeamRead(c)
    \/ \E storeOk \in BOOLEAN : LeaveTeamMissing(c, storeOk)
    \/ \E storeOk \in BOOLEAN : LeaveTeamCommit(c, storeOk)
    \/ \E to \in Users : InviteGetTeam(c, to)
    \/ InviteQuery(c)
    \/ \E storeOk \in BOOLEAN : InviteAdd(c, storeOk)
    \/ \E i \in InvIds, accepted \in BOOLEAN : HandleInvitationRead(c, i, accepted)
    \/ HandleInvitationTeam(c)
    \/ \E storeOk \in BOOLEAN : HandleInvitationCommit(c, storeOk)
    \/ \E skills \in ProfileEdits(c), storeOk \in BOOLEAN : HandleSave(c, skills, storeOk)

InitProfile == InitStore /\ scope = Scope({"u1", "u2"}, MaxBusy, TeamInvs, {})
NextProfile == \E c \in Users : ProfileStep(c)
SpecProfile == InitProfile /\ [][NextProfile]_vars

\* One browser in which the registered users sign in and out, onboard, and
\* which finally unmounts the root component.
AppStep ==
    \/ \E c \in Users : Register(c)
    \/ \E c \in Users : ProfileSnapshot(c)
    \/ \E c \in Users : Onboard(c)
    \/ \E u \in Users \cup {"none"}, emailVerified \in BOOLEAN :
          AuthStateChanged(u, emailVerified)
    \/ \E s \in SubIds : ProfileListener(s)
    \/ Teardown

InitApplication == InitStore /\ scope = Scope({"u1", "u2"}, OneAtATime, TeamInvs, {})
SpecApp == InitApplication /\ [][AppStep]_vars

\* Two users who sign up on an empty database, which the first signup
\* seeds, and then create teams, invite and answer.
SeedStep(c) ==
    \/ \E seedOk \in BOOLEAN : Signup(c, seedOk)
    \/ ProfileSnapshot(c)
    \/ Onboard(c)
    \/ \E teamName \in TeamNames, storeOk \in BOOLEAN : CreateTeam(c, teamName, storeOk)
    \/ \E to \in Users : InviteGetTeam(c, to)
    \/ InviteQuery(c)
    \/ \E storeOk \in BOOLEAN : InviteAdd(c, storeOk)
    \/ \E i \in InvIds, accepted \in BOOLEAN : HandleInvitationRead(c, i, accepted)
    \/ HandleInvitationTeam(c)
    \/ \E storeOk \in BOOLEAN : HandleInvitationCommit(c, storeOk)

InitSeed ==
    /\ auth = [u \in Users |-> "none"]
    /\ users = [u \in Users \cup MockUsers |-> NoProfile]
    /\ teams = [t \in TeamIds |-> NoTeam]
    /\ convs = [t \in TeamIds |-> NoConv]
    /\ invs = [i \in InvIds |-> NoInv]
    /\ teamCount = 0
    /\ invCount = 0
    /\ cache = [u \in Users |-> NoProfile]
    /\ op = [u \in Users |-> IdleOp]
    /\ app = InitApp
    /\ result = NoResult
    /\ scope = Scope({"u1", "u2"}, OneAtATime, MaxInvs, {})

NextSeed == \E c \in Users : SeedStep(c)
SpecSeed == InitSeed /\ [][NextSeed]_vars

\* Two users who create a team, invite and answer, where the buttons of an
\* invitation may be pressed a second time while the first call is in flight.
InitDouble ==
    /\ auth = [u \in Users |-> "none"]
    /\ users = [u \in Users |-> NoProfile]
    /\ teams = [t \in TeamIds |-> NoTeam]
    /\ convs = [t \in TeamIds |-> NoConv]
    /\ invs = [i \in InvIds |-> NoInv]
    /\ teamCount = 0
    /\ invCount = 0
    /\ cache = [u \in Users |-> NoProfile]
    /\ op = [k \in Users \cup {Again} |-> IdleOp]
    /\ app = InitApp
    /\ result = NoResult
    /\ scope = Scope({"u1", "u2"}, OneAtATime, TeamInvs, {})

NextDouble ==
    \/ \E c \in Users : InviteStep(c)
    \/ \E c \in Users, i \in InvIds, accepted \in BOOLEAN :
          HandleInvitationAgainRead(c, i, accepted)
    \/ HandleInvitationAgainTeam
    \/ \E storeOk \in BOOLEAN : HandleInvitationAgainCommit(storeOk)

SpecDouble == InitDouble /\ [][NextDouble]_vars

\* ---------------------------------------------------------------- claims
ExistingTeams == {t \in TeamIds : teams[t].exists}

\* C1: every existing team's skills are the union of the skills embedded in
\* its members, and its interests the union of their interests.
AggregatesAreUnion ==
    \A t \in ExistingTeams :
        /\ teams[t].skills = UnionSkills(teams[t].members)
        /\ teams[t].interests = UnionInterests(teams[t].members)

\* C2: the owner of every existing team is one of its members.
OwnerIsMember ==
    \A t \in ExistingTeams : teams[t].ownerId \in MemberIds(teams[t])

\* C3: at most one pending invitation exists for any team and recipient.
AtMostOnePending ==
    \A t \in TeamIds, u \in Users : Cardinality(PendingFor(t, u)) <= 1

\* C4: a user is in the member collection of an existing team exactly when
\* the user's profile has that team as teamId.
ProfileMatchesRoster ==
    \A t \in ExistingTeams, u \in Users :
        u \in MemberIds(teams[t]) <=> (users[u].exists /\ users[u].teamId = t)

\* C5: the participantIds of the conversation of every existing team are
\* the ids of the team's members.
ConversationMatchesRoster ==
    \A t \in ExistingTeams :
        convs[t].exists /\ convs[t].participantIds = MemberIds(teams[t])

\* C6: a profile has teamStatus 'In a team' exactly when its team reference
\* is present and not null.
StatusMatchesTeamRef ==
    \A u \in Users :
        users[u].exists => (users[u].teamStatus = InTeam <=> HasTeamId(users[u]))

\* C7: leaveTeam by the owner of a team with more than one member fails with
\* the owner error and changes no profile, team or conversation.
OwnerLeaveRejected ==
    [][\A c \in Users :
          (/\ HasTeamId(cache[c])
           /\ teams[cache[c].teamId].exists
           /\ teams[cache[c].teamId].ownerId = c
           /\ Len(teams[cache[c].teamId].members) > 1
           /\ LeaveTeamRead(c))
          => (result' = OwnerError /\ UNCHANGED <<users, teams, convs>>)]_vars

\* The owner of a team with several members has just been refused.
OwnerLeaveRejectedSeen ==
    /\ result = OwnerError
    /\ \E t \in ExistingTeams : Len(teams[t].members) > 1

\* C8: the commit of leaveTeam by an owner who read the team with no other
\* member either deletes the team and its conversation and resets the
\* profile, or changes nothing.
SoleOwnerLeaveAtomic ==
    [][\A c \in Users :
          (/\ op[c].pc = "leave_commit"
           /\ op'[c].pc = "idle"
           /\ op[c].user.id = op[c].team.ownerId
           /\ Len(op[c].team.members) = 1)
          => \/ /\ result' = "ok"
                /\ ~teams'[op[c].teamId].exists
                /\ ~convs'[op[c].teamId].exists
                /\ users'[c].teamId = NullTeam
                /\ users'[c].isTeamOwner = "false"
                /\ users'[c].teamStatus = Looking
             \/ /\ result' = "error"
                /\ UNCHANGED <<users, teams, convs>>]_vars

\* A sole owner has left: the team and its conversation are gone and the
\* profile is reset.
SoleOwnerLeaveSeen ==
    /\ result = "ok"
    /\ \E t \in 1..teamCount, u \in Users :
          /\ ~teams[t].exists
          /\ ~convs[t].exists
          /\ users[u].exists
          /\ users[u].teamId = NullTeam
          /\ users[u].isTeamOwner = "false"
          /\ users[u].teamStatus = Looking

\* C9: a successful accept adds one member, removes one pending invitation
\* and adds one conversation participant; a decline removes the invitation
\* and changes no profile, team or conversation.
AcceptAddsExactlyOne ==
    [][\A c \in Users :
          (/\ op[c].pc = "handle_commit"
           /\ op'[c].pc = "idle"
           /\ result' = "ok")
          => /\ Cardinality({i \in InvIds : invs'[i].exists})
                  = Cardinality({i \in InvIds : invs[i].exists}) - 1
             /\ IF op[c].accepted
                THEN /\ Len(teams'[op[c].teamId].members)
                          = Len(teams[op[c].teamId].members) + 1
                     /\ Cardinality(convs'[op[c].teamId].participantIds)
                          = Cardinality(convs[op[c].teamId].participantIds) + 1
                ELSE UNCHANGED <<users, teams, convs>>]_vars

\* C10: a successful createTeam writes a team with the owner as only member
\* and the owner's skills and interests, marks the owner's profile and
\* creates the conversation with the owner as only participant; a failed
\* one changes no profile, team or conversation.
CreateTeamEffects ==
    [][\A c \in Users, teamName \in TeamNames, storeOk \in BOOLEAN :
          CreateTeam(c, teamName, storeOk)
          => \/ /\ result' = "ok"
                /\ teamCount' = teamCount + 1
                /\ teams'[teamCount'].exists
                /\ teams'[teamCount'].name = teamName
                /\ teams'[teamCount'].ownerId = c
                /\ Len(teams'[teamCount'].members) = 1
                /\ MemberIds(teams'[teamCount']) = {c}
                /\ teams'[teamCount'].skills = cache[c].skills
                /\ teams'[teamCount'].interests = cache[c].interests
                /\ users'[c].teamId = teamCount'
                /\ users'[c].isTeamOwner = "true"
                /\ users'[c].teamStatus = InTeam
                /\ \A u \in Users \ {c} : users'[u] = users[u]
                /\ \A t \in TeamIds \ {teamCount'} :
                      teams'[t] = teams[t] /\ convs'[t] = convs[t]
                /\ convs'[teamCount'] =
                      [exists |-> TRUE, participantIds |-> {c}]
             \/ /\ result' = "error"
                /\ UNCHANGED <<users, teams, convs, teamCount>>]_vars

\* A team has just been created and holds its owner alone.
CreateTeamSeen ==
    /\ result = "ok"
    /\ \E t \in ExistingTeams :
          /\ Len(teams[t].members) = 1
          /\ users[teams[t].ownerId].teamId = t
          /\ users[teams[t].ownerId].isTeamOwner = "true"
          /\ users[teams[t].ownerId].teamStatus = InTeam
          /\ convs[t] = [exists |-> TRUE, participantIds |-> {teams[t].ownerId}]

\* C11: createTeam by a user whose stored profile is in a team creates no
\* team and changes no profile, team or conversation.
CreateTeamRejectedOnTeam ==
    [][\A c \in Users, teamName \in TeamNames, storeOk \in BOOLEAN :
          (/\ users[c].exists
           /\ users[c].teamStatus = InTeam
           /\ HasTeamId(users[c])
           /\ CreateTeam(c, teamName, storeOk))
          => (/\ result' = "error"
              /\ UNCHANGED <<users, teams, convs, teamCount>>)]_vars

\* C12: an accepting handleInvitation that finds the invitation's team
\* missing ends with 'Team not found' (or, when the team disappears after
\* the read, with the store's error) and changes no invitation, profile,
\* team or conversation.
AcceptMissingTeamRejected ==
    [][\A c \in Users :
          (/\ op[c].pc \in {"handle_team", "handle_commit"}
           /\ op[c].accepted
           /\ ~teams[op[c].teamId].exists
           /\ op'[c] # op[c])
          => (/\ op'[c].pc = "idle"
              /\ op[c].pc = "handle_team" => result' = TeamNotFound
              /\ op[c].pc = "handle_commit" => result' = "error"
              /\ UNCHANGED <<users, teams, convs, invs>>)]_vars

\* An accept has just been refused for a missing team, the invitation remains.
AcceptMissingTeamSeen ==
    /\ result = TeamNotFound
    /\ \E i \in InvIds : invs[i].exists /\ ~teams[invs[i].teamId].exists

\* C13: leaveTeam for a team whose document is missing raises no error of
\* its own: its one write clears the user's team fields and changes nothing
\* else, and if the store refuses that write nothing changes.
LeaveMissingTeamClears ==
    [][\A c \in Users :
          (op[c].pc = "leave_missing" /\ op'[c] # op[c])
          => /\ op'[c].pc = "idle"
             /\ UNCHANGED <<teams, convs, invs>>
             /\ \A u \in Users \ {c} : users'[u] = users[u]
             /\ \/ /\ result' = "ok"
                   /\ users'[c] = [users[c] EXCEPT !.teamId = NullTeam,
                                                   !.isTeamOwner = "false",
                                                   !.teamStatus = Looking]
                \/ /\ result' = "error"
                   /\ users'[c] = users[c]]_vars

\* leaveTeam has found the team of the user's profile missing.
LeaveMissingTeamSeen ==
    \E c \in Users :
        /\ op[c].pc = "leave_missing"
        /\ users[c].exists
        /\ users[c].teamId = op[c].teamId
        /\ ~teams[op[c].teamId].exists

\* C14: a successful leaveTeam by a user who is not the owner removes that
\* user's entries from the stored members and keeps the others, sets skills
\* and interests to the union over the remaining members, removes the user
\* from participantIds, clears the profile and keeps ownerId and name.
MemberLeaveEffects ==
    [][\A c \in Users :
          (/\ op[c].pc = "leave_commit"
           /\ op[c].user.id # op[c].team.ownerId
           /\ op'[c].pc = "idle"
           /\ result' = "ok")
          => /\ teams'[op[c].teamId].members =
                    WithoutMember(teams[op[c].teamId].members, c)
             /\ teams'[op[c].teamId].skills =
                    UnionSkills(teams'[op[c].teamId].members)
             /\ teams'[op[c].teamId].interests =
                    UnionInterests(teams'[op[c].teamId].members)
             /\ teams'[op[c].teamId].ownerId = teams[op[c].teamId].ownerId
             /\ teams'[op[c].teamId].name = teams[op[c].teamId].name
             /\ convs'[op[c].teamId].participantIds =
                    convs[op[c].teamId].participantIds \ {c}
             /\ users'[c] = [users[c] EXCEPT !.teamId = NullTeam,
                                             !.isTeamOwner = "false",
                                             !.teamStatus = Looking]]_vars

\* C15: sendInvitation whose query finds a pending invitation for the team
\* and the recipient fails with the 'already exists' error and creates
\* nothing; otherwise it goes on to create exactly one invitation carrying
\* the team's id and name, the sender and the recipient.
SendInvitationEffects ==
    [][\A c \in Users :
          /\ (op[c].pc = "invite_query" /\ op'[c] # op[c])
             => /\ UNCHANGED <<invs, invCount>>
                /\ IF \E i \in InvIds : /\ invs[i].exists
                                        /\ invs[i].teamId = op[c].teamId
                                        /\ invs[i].toUserId = op[c].to
                   THEN result' = InviteExistsError /\ op'[c].pc = "idle"
                   ELSE op'[c].pc = "invite_add"
          /\ (op[c].pc = "invite_add" /\ op'[c] # op[c])
             => \/ /\ result' = "ok"
                   /\ invCount' = invCount + 1
                   /\ invs' = [invs EXCEPT ![invCount'] =
                          [exists |-> TRUE, teamId |-> op[c].teamId,
                           teamName |-> op[c].team.name,
                           fromUserId |-> c, toUserId |-> op[c].to]]
                \/ /\ result' = "error"
                   /\ UNCHANGED <<invs, invCount>>]_vars

\* A second invitation of the same user to the same team has been refused.
SendInvitationRefusedSeen ==
    /\ result = InviteExistsError
    /\ \E i \in InvIds : invs[i].exists

\* C16: the list getRecommendedTeams returns holds no team owned by the
\* user, no team with the user among its members and no team of score 0.
RecommendationExcludes ==
    [][\A c \in Users :
          (op[c].pc = "recommend" /\ op'[c].pc = "idle")
          => /\ \A i \in 1..Len(result') :
                   /\ result'[i].ownerId # c
                   /\ \A k \in 1..Len(result'[i].members) :
                         result'[i].members[k].id # c
                   /\ result'[i].score # 0
                   /\ result'[i].members = teams[result'[i].id].members
                   /\ result'[i].ownerId = teams[result'[i].id].ownerId
             /\ \A t \in TeamIds :
                   (teams[t].ownerId = c \/ c \in MemberIds(teams[t]))
                   => \A i \in 1..Len(result') : result'[i].id # t]_vars

\* A recommendation has been returned while another team, which has the
\* caller among its members without being owned by the caller, was left out.
RecommendationExcludesSeen ==
    /\ op["u1"].pc = "idle"
    /\ Len(result) >= 1
    /\ \E t \in TeamIds :
          teams[t].ownerId # "u1" /\ "u1" \in MemberIds(teams[t])

\* C17: every returned team carries score = 2 * |user skills common with
\* the team's| + |user interests common with the team's|, tags counted
\* once, and commonSkills / commonInterests are exactly those common tags.
RecommendationScore ==
    [][\A c \in Users :
          (op[c].pc = "recommend" /\ op'[c].pc = "idle")
          => \A i \in 1..Len(result') :
                LET team == teams[result'[i].id]
                    skillsInCommon ==
                        SetOf(op[c].user.skills) \cap SetOf(team.skills)
                    interestsInCommon ==
                        SetOf(op[c].user.interests) \cap SetOf(team.interests)
                IN /\ result'[i].score =
                        2 * Cardinality(skillsInCommon) + Cardinality(interestsInCommon)
                   /\ SetOf(result'[i].commonSkills) = skillsInCommon
                   /\ Len(result'[i].commonSkills) = Cardinality(skillsInCommon)
                   /\ SetOf(result'[i].commonInterests) = interestsInCommon
                   /\ Len(result'[i].commonInterests) = Cardinality(interestsInCommon)]_vars

\* The user with skills A, B and interest C has been recommended a team
\* with skill A and interest C, scored 3.
RecommendationScoreSeen ==
    /\ op["u1"].pc = "idle"
    /\ op["u1"].user.skills = <<"A", "B">>
    /\ op["u1"].user.interests = <<"C">>
    /\ \E i \in 1..Len(result) :
          /\ result[i].skills = <<"A">>
          /\ result[i].interests = <<"C">>
          /\ result[i].score = 3

\* Users a and b are registered and neither has a team or an invitation.
ScenarioStart(a, b) ==
    /\ teamCount = 0
    /\ invCount = 0
    /\ \A u \in {a, b} : users[u].exists /\ ~HasTeamId(users[u])

\* a has created the first team and is alone in it; b has no team.
ScenarioTeamCreated(a, b) ==
    /\ teamCount = 1
    /\ teams[1].exists
    /\ teams[1].ownerId = a
    /\ Len(teams[1].members) = 1
    /\ MemberIds(teams[1]) = {a}
    /\ convs[1].exists
    /\ convs[1].participantIds = {a}
    /\ users[b].exists
    /\ ~HasTeamId(users[b])

\* C18: from two users without a team, createTeam by the first gives a team
\* of one member and sets isTeamOwner; sendInvitation to the second then
\* leaves exactly one pending invitation; the second's accept then gives a
\* team of two members and a conversation of two participants, sets the
\* second's status to 'In a team' and removes the invitation.
ScenarioOutcome ==
    [][\A a, b \in Users :
          a # b =>
          /\ (/\ ScenarioStart(a, b)
              /\ teamCount' = 1
              /\ users'[a] # users[a])
             => /\ teams'[1].exists
                /\ Len(teams'[1].members) = 1
                /\ users'[a].isTeamOwner = "true"
          /\ (/\ ScenarioTeamCreated(a, b)
              /\ invCount = 0
              /\ op[a].pc = "invite_add"
              /\ op[a].to = b
              /\ op'[a].pc = "idle"
              /\ result' = "ok")
             => /\ Cardinality({i \in InvIds : invs'[i].exists}) = 1
                /\ Cardinality({i \in InvIds : /\ invs'[i].exists
                                               /\ invs'[i].teamId = 1
                                               /\ invs'[i].toUserId = b}) = 1
          /\ (/\ ScenarioTeamCreated(a, b)
              /\ Cardinality({i \in InvIds : invs[i].exists}) = 1
              /\ op[b].pc = "handle_commit"
              /\ op[b].accepted
              /\ op[b].teamId = 1
              /\ op'[b].pc = "idle"
              /\ result' = "ok")
             => /\ Len(teams'[1].members) = 2
                /\ MemberIds(teams'[1]) = {a, b}
                /\ users'[b].teamStatus = InTeam
                /\ \A i \in InvIds : ~invs'[i].exists
                /\ Cardinality(convs'[1].participantIds) = 2]_vars

\* The scenario has run to its end: one team of two, no invitation left.
ScenarioOutcomeSeen ==
    /\ result = "ok"
    /\ teamCount = 1
    /\ invCount = 1
    /\ teams[1].exists
    /\ Len(teams[1].members) = 2
    /\ convs[1].participantIds = MemberIds(teams[1])
    /\ \A u \in MemberIds(teams[1]) : users[u].teamStatus = InTeam
    /\ users[teams[1].ownerId].isTeamOwner = "true"
    /\ \A i \in InvIds : ~invs[i].exists

\* C19: deleteUserAccount branches as leaveTeam does, on user.id =
\* team.ownerId: the owner of a team with other members is refused and
\* nothing changes, a sole owner goes on to delete the team and then the
\* conversation, and any other member goes on to be removed from the team.
DeleteBranchesLikeLeave ==
    [][\A c \in Users :
          (/\ HasTeamId(cache[c])
           /\ teams[cache[c].teamId].exists
           /\ DeleteAccountRead(c))
          => /\ UNCHANGED <<users, teams, convs>>
             /\ IF LeavesAsOwner(cache[c], teams[cache[c].teamId])
                THEN IF HasOtherMembers(teams[cache[c].teamId])
                     THEN result' = DeleteOwnerError /\ op'[c].pc = "idle"
                     ELSE op'[c].pc = "delete_owner_team"
                ELSE op'[c].pc = "delete_member_team"]_vars

\* C20: when deleteUserAccount succeeds for a member of team T who is not
\* its owner, T.members and the participantIds of T's conversation no longer
\* contain the user, T.skills and T.interests are the unions over the
\* remaining members, and the user's profile document is gone.
MemberDeleteEffects ==
    [][\A c \in Users :
          (/\ op[c].pc = "delete_user"
           /\ op[c].teamId # NullTeam
           /\ teams[op[c].teamId].exists
           /\ ~LeavesAsOwner(op[c].user, teams[op[c].teamId])
           /\ DeleteUserDoc(c, TRUE))
          => LET team == teams'[op[c].teamId]
                 conv == convs'[op[c].teamId]
             IN /\ \A i \in 1..Len(team.members) : team.members[i].id # c
                /\ c \notin conv.participantIds
                /\ team.skills = UnionSkills(team.members)
                /\ team.interests = UnionInterests(team.members)
                /\ ~users'[c].exists]_vars

\* The steps of deleteUserAccount and handleDeleteAccount that write.
DeleteWritePcs ==
    {"delete_owner_team", "delete_owner_conv", "delete_member_team",
     "delete_member_conv", "delete_user", "delete_identity"}

\* Team t is consistent: members, conversation participants and aggregates
\* agree, or the team and its conversation are both absent.
TeamConsistent(t) ==
    IF teams[t].exists
    THEN /\ convs[t].exists
         /\ convs[t].participantIds = MemberIds(teams[t])
         /\ teams[t].skills = UnionSkills(teams[t].members)
         /\ teams[t].interests = UnionInterests(teams[t].members)
    ELSE ~convs[t].exists

\* C21: when a write of account deletion fails, the state it leaves has the
\* user's team consistent and the user's identity still in place.
DeleteFailureConsistent ==
    [][\A c \in Users :
          (/\ op[c].pc \in DeleteWritePcs
           /\ op'[c].pc = "idle"
           /\ result' = "error")
          => /\ auth'[c] = "active"
             /\ \A t \in TeamIds : t = op[c].teamId => TeamConsistent(t)']_vars

\* C22: a profile save by a user who is a member of a team leaves every team
\* document as it was, the member snapshots and the aggregates included.
ProfileEditKeepsTeams ==
    [][\A c \in Users :
          (/\ \E t \in ExistingTeams : c \in MemberIds(teams[t])
           /\ \E skills \in ProfileEdits(c), storeOk \in BOOLEAN :
                  HandleSave(c, skills, storeOk))
          => teams' = teams]_vars

\* A member's stored skills have been edited and differ from the snapshot
\* the team embeds and from what the team's aggregate covers.
ProfileEditKeepsTeamsSeen ==
    \E t \in ExistingTeams, c \in Users :
        /\ result = "ok"
        /\ users[c].exists
        /\ users[c].teamId = t
        /\ \E i \in 1..Len(teams[t].members) :
              /\ teams[t].members[i].id = c
              /\ teams[t].members[i].skills # users[c].skills
        /\ ~(users[c].skills \subseteq teams[t].skills)

\* C23: a profile save and an onboarding save leave the stored teamStatus,
\* teamId and isTeamOwner of the profile as they were.
SaveKeepsTeamFields ==
    [][\A c \in Users :
          (\/ Onboard(c)
           \/ \E skills \in SkillEdits(c), storeOk \in BOOLEAN :
                  HandleSave(c, skills, storeOk))
          => /\ users'[c].teamStatus = users[c].teamStatus
             /\ users'[c].teamId = users[c].teamId
             /\ users'[c].isTeamOwner = users[c].isTeamOwner]_vars

ActiveSubs == {s \in SubIds : app.subs[s].active}
CreatedSubs == 1..app.created

\* C24: at most one profile subscription is active at any time, no
\* subscription is released more than once, every subscription but the one
\* held has been released, and after teardown the auth listener is off and
\* every subscription created has been released exactly once.
SubscriptionLifecycle ==
    /\ Cardinality(ActiveSubs) <= 1
    /\ \A s \in SubIds : app.subs[s].released <= 1
    /\ \A s \in CreatedSubs : s # app.handle => app.subs[s].released = 1
    /\ app.listening => ActiveSubs = {app.handle} \ {NoSub}
    /\ ~app.listening =>
          /\ ActiveSubs = {}
          /\ \A s \in CreatedSubs : app.subs[s].released = 1

\* Torn down after several sign-ins, the last subscription held until then.
SubscriptionLifecycleSeen ==
    /\ ~app.listening
    /\ app.created >= 2
    /\ app.handle # NoSub
    /\ app.subs[app.handle].released = 1

\* C25: handleInvitation, accepting or declining, on an invitation whose
\* document no longer exists fails with 'Invitation not found.' and changes
\* no profile, team, conversation or invitation.
ResolvedInvitationRejected ==
    [][\A c \in Users, i \in InvIds, accepted \in BOOLEAN :
          (/\ ~invs[i].exists
           /\ HandleInvitationRead(c, i, accepted))
          => /\ result' = InvitationNotFound
             /\ op'[c].pc = "idle"
             /\ UNCHANGED <<users, teams, convs, invs>>]_vars

\* A user who answered an invitation has just answered it again.
ResolvedInvitationRejectedSeen ==
    /\ result = InvitationNotFound
    /\ \E i \in InvIds : i <= invCount /\ ~invs[i].exists

\* C26: a step that deletes a team finds the owner as its only member, and
\* leaves no profile of another user with the deleted team as teamId.
TeamDeletedOnlyWhenAlone ==
    [][\A t \in TeamIds :
          (teams[t].exists /\ ~teams'[t].exists)
          => /\ MemberIds(teams[t]) = {teams[t].ownerId}
             /\ \A u \in Users :
                   (users'[u].exists /\ users'[u].teamId = t)
                   => u = teams[t].ownerId]_vars

\* C27: a stored profile has isTeamOwner = true only if its teamId is an
\* existing team whose ownerId is that user.
OwnerFlagAgrees ==
    \A u \in Users :
        (users[u].exists /\ users[u].isTeamOwner = "true")
        => /\ HasTeamId(users[u])
           /\ teams[users[u].teamId].exists
           /\ teams[users[u].teamId].ownerId = u

\* C28: for every existing team the conversation document of the team
\* exists.
EveryTeamHasConversation ==
    \A t \in ExistingTeams : convs[t].exists

\* C29: in the members of every existing team each user id occurs at most
\* once.
MemberIdsDistinct ==
    \A t \in ExistingTeams :
        \A i, j \in 1..Len(teams[t].members) :
            teams[t].members[i].id = teams[t].members[j].id => i = j

\* C30: an invitation is resolved at most once: a call of handleInvitation
\* that accepts and commits after the invitation was already resolved by
\* another call changes no profile, team or conversation, so a declined
\* invitation never makes the user join and a second accept adds nothing.
ResolvedAtMostOnce ==
    [][\A k \in DOMAIN op :
          (/\ op[k].pc = "handle_commit"
           /\ op'[k].pc = "idle"
           /\ op[k].accepted
           /\ result' = "ok"
           /\ ~invs[op[k].invId].exists)
          => UNCHANGED <<users, teams, convs>>]_vars

====
